---- MODULE Spec2Model ----
(***************************************************************************)
(* State-machine model of the orchestration notebook                       *)
(* src/src/genie-space/orchestration/query_optimization_orchestration.py   *)
(*                                                                         *)
(* One run of the notebook: configuration, pre-flight validation, the      *)
(* pipeline driver with its retrying executor, post-execution validation,  *)
(* the summary report and housekeeping.  The warehouse engine (spark.sql)  *)
(* and the script files are the environment: every call either returns a   *)
(* row set or raises an error with a message.  Time is a clock in hours    *)
(* that ticks at every attempt of the Executor; durations                  *)
(* (execution_time_seconds) are not modelled.                              *)
(***************************************************************************)
EXTENDS Integers, Sequences, FiniteSets, TLC

\* ------------------------------------------------------------------ bounds
\* Whole runs (Spec): etl.max_retry_attempts ranges over 0 .. MaxRetries, the
\* environment raises at most MaxFaults errors and returns at most MaxNonEmpty
\* non-empty row sets in one run.
MaxRetries == 2
MaxFaults == 2
MaxNonEmpty == 1
\* Single Executor calls (SpecExecutor): etl.max_retry_attempts ranges over
\* 0 .. MaxExecRetries and etl.retry_delay_seconds over 0 .. MaxBaseDelay; any
\* attempt may fail.
MaxExecRetries == 4
MaxBaseDelay == 2
\* Size of a non-empty row set: the engine returns no rows or MaxRows rows.
MaxRows == 1

\* Messages the environment's errors carry.
ErrMsgs == {"E1", "E2"}

\* Python's None.
None == "None"

\* --------------------------------------------------- program constants
\* "retry_delay_seconds": 30 of load_config's fallback configuration
FallbackRetryDelay == 30

\* "incremental_window_hours": 1 of load_config's fallback configuration
FallbackWindowHours == 1

required_tables ==
    << "system.query.history", "system.billing.usage", "system.billing.list_prices",
       "system.compute.clusters", "system.compute.warehouses" >>

required_config_keys == << "schemas", "etl", "performance_thresholds" >>

\* Mutant of pipeline_steps: the last step of the list is not required.
pipeline_steps_last_optional ==
    << [script |-> "../sql/01_schema_setup.sql", required |-> TRUE],
       [script |-> "../sql/02_core_tables.sql", required |-> TRUE],
       [script |-> "../sql/03_materialized_views.sql", required |-> TRUE],
       [script |-> "../sql/04_regular_views.sql", required |-> FALSE] >>

pipeline_steps ==
    << [script |-> "../sql/01_schema_setup.sql", required |-> TRUE],
       [script |-> "../sql/02_core_tables.sql", required |-> TRUE],
       [script |-> "../sql/03_materialized_views.sql", required |-> TRUE],
       [script |-> "../sql/04_regular_views.sql", required |-> TRUE] >>

key_tables ==
    << "query_performance_raw", "query_patterns", "optimization_tracking",
       "performance_baselines" >>

etl_command == "CALL process_query_performance_incremental"

tables_to_optimize ==
    << "query_performance_raw", "query_patterns", "optimization_tracking",
       "performance_baselines" >>

materialized_views ==
    << "mv_hourly_performance", "mv_daily_performance", "mv_pattern_performance",
       "mv_user_performance", "mv_performance_alerts" >>

data_quality_script == "../validation/data_quality_tests.sql"

VARIABLES
    MAX_RETRY_ATTEMPTS,   \* CONFIG["etl"]["max_retry_attempts"]
    RETRY_DELAY_SECONDS,  \* CONFIG["etl"]["retry_delay_seconds"]
    CONFIG,               \* the top-level sections the loaded configuration has
    pc,                   \* position of the notebook's control flow
    faults_left,          \* errors the environment may still raise
    nonempty_left,        \* non-empty row sets the environment may still return
    access_results,       \* check_system_table_access: access_results
    validation_errors,    \* validate_prerequisites: validation_errors
    frame,                \* the running Executor call: its loop and what it did
    result,               \* the running (or last returned) Executor call's result
    executor_calls,       \* Executor invocations so far in the run
    step,                 \* execute_pipeline: 1-based index of the for loop
    pipeline_results,     \* execute_pipeline: pipeline_results
    pipeline_summary,     \* module level: pipeline_summary
    validation_results,   \* module level: validation_results
    summary_report,       \* module level: summary_report
    notifications,        \* every send_notification call, in order
    INCREMENTAL_WINDOW_HOURS, \* CONFIG["etl"]["incremental_window_hours"]
    now,                  \* datetime.now(), in hours: ticks at every Executor attempt
    etl_window,           \* execute_pipeline: start_time, end_time of the incremental call
    queries,              \* the statements validate_prerequisites has sent, in order
    optimization_results, \* perform_table_optimization: optimization_results
    housekeeping_log      \* perform_table_optimization: the statements sent, in order

vars ==
    << MAX_RETRY_ATTEMPTS, RETRY_DELAY_SECONDS, CONFIG, pc, faults_left, nonempty_left,
       access_results, validation_errors, frame, result, executor_calls, step,
       pipeline_results, pipeline_summary, validation_results, summary_report,
       notifications, INCREMENTAL_WINDOW_HOURS, now, etl_window, queries,
       optimization_results, housekeeping_log >>

config_vars ==
    << MAX_RETRY_ATTEMPTS, RETRY_DELAY_SECONDS, CONFIG, INCREMENTAL_WINDOW_HOURS >>
preflight_vars == << access_results, validation_errors >>
housekeeping_vars == << optimization_results, housekeeping_log >>
executor_vars == << frame, result, executor_calls >>
pipeline_vars == << step, pipeline_results, pipeline_summary >>
report_vars == << validation_results, summary_report >>

\* ----------------------------------------------------------------- helpers
RECURSIVE Pow2(_)
Pow2(k) == IF k <= 0 THEN 1 ELSE 2 * Pow2(k - 1)

RECURSIVE SelectStatus(_, _)
\* [r for r in rs if r["status"] == st]
SelectStatus(rs, st) ==
    IF rs = << >> THEN << >>
    ELSE IF Head(rs).status = st
         THEN << Head(rs) >> \o SelectStatus(Tail(rs), st)
         ELSE SelectStatus(Tail(rs), st)

\* send_notification(message, severity)
send_notification(message, severity) ==
    Append(notifications, [severity |-> severity, message |-> message])

Unset == [status |-> "UNSET"]

\* No Executor call has been made yet.
NoFrame == [kind |-> "none", caller |-> "none", max_retries |-> 0, attempt |-> 0,
            engine_calls |-> 0, sleeps |-> << >>, outcomes |-> << >>]

\* The environment may raise one more error / return one more non-empty row set.
CanFail == faults_left > 0
RowSets == {n \in {0, MaxRows} : n = 0 \/ nonempty_left > 0}

\* -------------------------------------------------------------------- Init
\* The module level reads CONFIG["schemas"] and CONFIG["etl"] while loading, so a
\* run that gets as far as validation has both sections.
Init ==
    /\ MAX_RETRY_ATTEMPTS \in 0 .. MaxRetries
    /\ RETRY_DELAY_SECONDS = FallbackRetryDelay
    /\ CONFIG \in { {"schemas", "etl"}, {"schemas", "etl", "performance_thresholds"} }
    /\ pc = "check_system_table_access"
    /\ faults_left = MaxFaults
    /\ nonempty_left = MaxNonEmpty
    /\ access_results = << >>
    /\ validation_errors = << >>
    /\ frame = NoFrame
    /\ result = Unset
    /\ executor_calls = 0
    /\ step = 1
    /\ pipeline_results = << >>
    /\ pipeline_summary = Unset
    /\ validation_results = Unset
    /\ summary_report = Unset
    /\ notifications = << >>
    /\ INCREMENTAL_WINDOW_HOURS = FallbackWindowHours
    /\ now = 0
    /\ etl_window = Unset
    /\ queries = << >>
    /\ optimization_results = << >>
    /\ housekeeping_log = << >>

\* ------------------------------------------------- pre-execution validation
RECURSIVE AccessErrors(_)
\* "Cannot access {table}: {error}" for every result that is not accessible
AccessErrors(rs) ==
    IF rs = << >> THEN << >>
    ELSE (IF Head(rs).accessible THEN << >>
          ELSE << [check |-> "access", subject |-> Head(rs).table,
                   error |-> Head(rs).error] >>)
         \o AccessErrors(Tail(rs))

\* A statement validate_prerequisites sends to the engine.
Query(sql, subject) == [sql |-> sql, subject |-> subject]

\* Mutant of check_system_table_access: the first table that cannot be read ends
\* the loop.
check_system_table_access_stops_at_failure ==
    /\ pc = "check_system_table_access"
    /\ Len(access_results) < Len(required_tables)
    /\ queries' = Append(queries,
           Query("SELECT COUNT(*)", required_tables[Len(access_results) + 1]))
    /\ LET table == required_tables[Len(access_results) + 1] IN
        \/ /\ access_results' = Append(access_results,
                  [table |-> table, status |-> "SUCCESS", accessible |-> TRUE,
                   error |-> None])
           /\ faults_left' = faults_left
           /\ validation_errors' = validation_errors
           /\ pc' = pc
        \/ /\ CanFail
           /\ \E msg \in ErrMsgs :
                  access_results' = Append(access_results,
                      [table |-> table, status |-> "FAILED", accessible |-> FALSE,
                       error |-> msg])
           /\ faults_left' = faults_left - 1
           /\ validation_errors' = validation_errors \o AccessErrors(access_results')
           /\ pc' = "validate_schema"
    /\ UNCHANGED << config_vars, nonempty_left, executor_vars,
                    pipeline_vars, report_vars, notifications,
                    now, etl_window, housekeeping_vars >>

\* check_system_table_access: one iteration of "for table in required_tables".
check_system_table_access ==
    /\ pc = "check_system_table_access"
    /\ Len(access_results) < Len(required_tables)
    /\ queries' = Append(queries,
           Query("SELECT COUNT(*)", required_tables[Len(access_results) + 1]))
    /\ LET table == required_tables[Len(access_results) + 1] IN
        \/ /\ access_results' = Append(access_results,
                  [table |-> table, status |-> "SUCCESS", accessible |-> TRUE,
                   error |-> None])
           /\ faults_left' = faults_left
        \/ /\ CanFail
           /\ \E msg \in ErrMsgs :
                  access_results' = Append(access_results,
                      [table |-> table, status |-> "FAILED", accessible |-> FALSE,
                       error |-> msg])
           /\ faults_left' = faults_left - 1
    /\ UNCHANGED << config_vars, pc, nonempty_left, validation_errors, executor_vars,
                    pipeline_vars, report_vars, notifications,
                    now, etl_window, housekeeping_vars >>

\* validate_prerequisites, check 1: the access results are folded into the errors.
validate_system_table_access ==
    /\ pc = "check_system_table_access"
    /\ Len(access_results) = Len(required_tables)
    /\ validation_errors' = validation_errors \o AccessErrors(access_results)
    /\ pc' = "validate_schema"
    /\ UNCHANGED << config_vars, faults_left, nonempty_left, access_results, executor_vars,
                    pipeline_vars, report_vars, notifications,
                    now, etl_window, queries, housekeeping_vars >>

\* The two statements of the schema check, in the order they are sent.
SchemaQueries == << Query("USE CATALOG", "catalog"), Query("SHOW SCHEMAS", "schema") >>

\* validate_prerequisites, check 2: USE CATALOG and SHOW SCHEMAS in one try block.
\* Mutant of validate_schema: a failed schema check ends validation at once, the
\* configuration sections and the cluster are not looked at.
validate_schema_short_circuit ==
    /\ pc = "validate_schema"
    /\ \/ /\ queries' = queries \o SchemaQueries
          /\ validation_errors' = validation_errors
          /\ faults_left' = faults_left
          /\ pc' = "validate_config"
       \/ /\ CanFail
          /\ \E raised_at \in 1 .. Len(SchemaQueries) :
                 queries' = queries \o SubSeq(SchemaQueries, 1, raised_at)
          /\ \E msg \in ErrMsgs :
                 validation_errors' = Append(validation_errors,
                     [check |-> "schema", subject |-> "schema", error |-> msg])
          /\ faults_left' = faults_left - 1
          /\ pc' = "prerequisites_gate"
    /\ UNCHANGED << config_vars, nonempty_left, access_results, executor_vars,
                    pipeline_vars, report_vars, notifications,
                    now, etl_window, housekeeping_vars >>

\* Either statement may raise; when USE CATALOG raises, SHOW SCHEMAS is not sent.
validate_schema ==
    /\ pc = "validate_schema"
    /\ \/ /\ queries' = queries \o SchemaQueries
          /\ validation_errors' = validation_errors
          /\ faults_left' = faults_left
       \/ /\ CanFail
          /\ \E raised_at \in 1 .. Len(SchemaQueries) :
                 queries' = queries \o SubSeq(SchemaQueries, 1, raised_at)
          /\ \E msg \in ErrMsgs :
                 validation_errors' = Append(validation_errors,
                     [check |-> "schema", subject |-> "schema", error |-> msg])
          /\ faults_left' = faults_left - 1
    /\ pc' = "validate_config"
    /\ UNCHANGED << config_vars, nonempty_left, access_results, executor_vars,
                    pipeline_vars, report_vars, notifications,
                    now, etl_window, housekeeping_vars >>

RECURSIVE MissingSections(_)
\* "Missing required configuration section: {key}" for every key not in CONFIG
MissingSections(keys) ==
    IF keys = << >> THEN << >>
    ELSE (IF Head(keys) \in CONFIG THEN << >>
          ELSE << [check |-> "config", subject |-> Head(keys), error |-> "missing"] >>)
         \o MissingSections(Tail(keys))

\* validate_prerequisites, check 3: the required configuration sections.
validate_config ==
    /\ pc = "validate_config"
    /\ validation_errors' = validation_errors \o MissingSections(required_config_keys)
    /\ pc' = "validate_cluster"
    /\ UNCHANGED << config_vars, faults_left, nonempty_left, access_results, executor_vars,
                    pipeline_vars, report_vars, notifications,
                    now, etl_window, queries, housekeeping_vars >>

\* validate_prerequisites, check 4: SELECT 1.
validate_cluster ==
    /\ pc = "validate_cluster"
    /\ queries' = Append(queries, Query("SELECT 1", "cluster"))
    /\ \/ /\ validation_errors' = validation_errors
          /\ faults_left' = faults_left
       \/ /\ CanFail
          /\ \E msg \in ErrMsgs :
                 validation_errors' = Append(validation_errors,
                     [check |-> "cluster", subject |-> "cluster", error |-> msg])
          /\ faults_left' = faults_left - 1
    /\ pc' = "prerequisites_gate"
    /\ UNCHANGED << config_vars, nonempty_left, access_results, executor_vars,
                    pipeline_vars, report_vars, notifications,
                    now, etl_window, housekeeping_vars >>

\* Mutant of validation_success: one error is let through.
validation_success_off_by_one == Len(validation_errors) <= 1

\* success = len(validation_errors) == 0
validation_success == Len(validation_errors) = 0

\* Mutant of prerequisites_gate: the run is ended without the ERROR notification.
prerequisites_gate_silent ==
    /\ pc = "prerequisites_gate"
    /\ notifications' = notifications
    /\ pc' = IF ~ validation_success THEN "raised" ELSE "execute_pipeline"
    /\ UNCHANGED << config_vars, faults_left, nonempty_left, preflight_vars, executor_vars,
                    pipeline_vars, report_vars,
                    now, etl_window, queries, housekeeping_vars >>

\* Module level after validate_prerequisites: notify and raise, or go on.
prerequisites_gate ==
    /\ pc = "prerequisites_gate"
    /\ IF ~ validation_success
       THEN /\ notifications' =
                   send_notification("Prerequisites validation failed", "ERROR")
            /\ pc' = "raised"
       ELSE /\ notifications' = notifications
            /\ pc' = "execute_pipeline"
    /\ UNCHANGED << config_vars, faults_left, nonempty_left, preflight_vars, executor_vars,
                    pipeline_vars, report_vars,
                    now, etl_window, queries, housekeeping_vars >>

\* ---------------------------------------------------------------- Executor
\* execute_sql_script / execute_sql_command up to the retry loop: max_retries
\* defaults to MAX_RETRY_ATTEMPTS (no caller passes it) and result starts PENDING.
\* frame.attempt is the loop variable; engine_calls, sleeps and outcomes record what
\* the call did: the spark.sql calls, the time.sleep arguments and each attempt's
\* outcome ("ok" or the error's message).
EntryFrame(kind, caller) ==
    [kind |-> kind, caller |-> caller, max_retries |-> MAX_RETRY_ATTEMPTS,
     attempt |-> 0, engine_calls |-> 0, sleeps |-> << >>, outcomes |-> << >>]

\* result = {..., "status": "PENDING", "attempt_count": 0, "error_message": None,
\*           "row_count": 0}
EntryResult(subject) ==
    [subject |-> subject, status |-> "PENDING", attempt_count |-> 0,
     error_message |-> None, row_count |-> 0]

ExecutorEntry(kind, caller, subject) ==
    /\ frame' = EntryFrame(kind, caller)
    /\ result' = EntryResult(subject)
    /\ executor_calls' = executor_calls + 1
    /\ pc' = "execute_sql"

\* Where an attempt can raise: reading the script file (scripts only, before the
\* engine is called) or the engine (spark.sql or collect).
FailureKinds(kind) == IF kind = "script" THEN {"read", "engine"} ELSE {"engine"}

\* Mutant of Handles: the handler catches the engine's errors only.
Handles_engine_only(failure) == failure = "engine"

\* "except Exception as e" around the whole attempt catches both.
Handles(failure) == failure \in {"read", "engine"}

\* if attempt == max_retries - 1
IsFinalAttempt(attempt, max_retries) == attempt = max_retries - 1

\* Mutant of WaitTime: linear instead of exponential backoff.
WaitTime_linear(attempt) == RETRY_DELAY_SECONDS * (attempt + 1)

\* wait_time = RETRY_DELAY_SECONDS * (2 ** attempt)
WaitTime(attempt) == RETRY_DELAY_SECONDS * Pow2(attempt)

\* Mutant of execute_sql_attempt_success: the result is marked SUCCESS but the
\* "return result" is missing, so the loop goes on.
execute_sql_attempt_success_no_return ==
    /\ pc = "execute_sql"
    /\ frame.attempt < frame.max_retries
    /\ \E rows \in RowSets :
        /\ result' = [result EXCEPT !.attempt_count = frame.attempt + 1,
                                    !.row_count = rows,
                                    !.status = "SUCCESS"]
        /\ nonempty_left' = IF rows > 0 THEN nonempty_left - 1 ELSE nonempty_left
    /\ frame' = [frame EXCEPT !.engine_calls = @ + 1, !.outcomes = Append(@, "ok"),
                              !.attempt = @ + 1]
    /\ pc' = "execute_sql"
    /\ now' = now + 1
    /\ UNCHANGED << config_vars, faults_left, preflight_vars, executor_calls,
                    pipeline_vars, report_vars, notifications,
                    etl_window, queries, housekeeping_vars >>

\* Mutant of execute_sql_attempt_success: a success wipes the message an earlier
\* failed attempt left.
execute_sql_attempt_success_clears_error ==
    /\ pc = "execute_sql"
    /\ frame.attempt < frame.max_retries
    /\ \E rows \in RowSets :
        /\ result' = [result EXCEPT !.attempt_count = frame.attempt + 1,
                                    !.row_count = rows,
                                    !.error_message = None,
                                    !.status = "SUCCESS"]
        /\ nonempty_left' = IF rows > 0 THEN nonempty_left - 1 ELSE nonempty_left
    /\ frame' = [frame EXCEPT !.engine_calls = @ + 1, !.outcomes = Append(@, "ok")]
    /\ pc' = "execute_sql_return"
    /\ now' = now + 1
    /\ UNCHANGED << config_vars, faults_left, preflight_vars, executor_calls,
                    pipeline_vars, report_vars, notifications,
                    etl_window, queries, housekeeping_vars >>

\* One iteration of "for attempt in range(max_retries)" whose try block succeeds:
\* the result is marked SUCCESS with the row count and returned.
execute_sql_attempt_success ==
    /\ pc = "execute_sql"
    /\ frame.attempt < frame.max_retries
    /\ \E rows \in RowSets :
        /\ result' = [result EXCEPT !.attempt_count = frame.attempt + 1,
                                    !.row_count = rows,
                                    !.status = "SUCCESS"]
        /\ nonempty_left' = IF rows > 0 THEN nonempty_left - 1 ELSE nonempty_left
    /\ frame' = [frame EXCEPT !.engine_calls = @ + 1, !.outcomes = Append(@, "ok")]
    /\ pc' = "execute_sql_return"
    /\ now' = now + 1
    /\ UNCHANGED << config_vars, faults_left, preflight_vars, executor_calls,
                    pipeline_vars, report_vars, notifications,
                    etl_window, queries, housekeeping_vars >>

\* One iteration whose try block raises: the message is kept; the final attempt
\* marks the result FAILED and returns, any other sleeps and goes round again.
execute_sql_attempt_failure ==
    /\ pc = "execute_sql"
    /\ frame.attempt < frame.max_retries
    /\ CanFail
    /\ \E failure \in FailureKinds(frame.kind), msg \in ErrMsgs :
        LET attempt == frame.attempt
            tried == [frame EXCEPT
                         !.engine_calls = IF failure = "engine" THEN @ + 1 ELSE @,
                         !.outcomes = Append(@, msg)]
        IN  IF ~ Handles(failure)
            THEN /\ result' = [result EXCEPT !.attempt_count = attempt + 1]
                 /\ frame' = tried
                 /\ pc' = "uncaught"
            ELSE IF IsFinalAttempt(attempt, frame.max_retries)
            THEN /\ result' = [result EXCEPT !.attempt_count = attempt + 1,
                                             !.error_message = msg,
                                             !.status = "FAILED"]
                 /\ frame' = tried
                 /\ pc' = "execute_sql_return"
            ELSE /\ result' = [result EXCEPT !.attempt_count = attempt + 1,
                                             !.error_message = msg]
                 /\ frame' = [tried EXCEPT !.sleeps = Append(@, WaitTime(attempt)),
                                           !.attempt = attempt + 1]
                 /\ pc' = "execute_sql"
    /\ faults_left' = faults_left - 1
    /\ now' = now + 1
    /\ UNCHANGED << config_vars, nonempty_left, preflight_vars, executor_calls,
                    pipeline_vars, report_vars, notifications,
                    etl_window, queries, housekeeping_vars >>

\* The loop ends without having returned: the "return result" after it.
execute_sql_loop_exhausted ==
    /\ pc = "execute_sql"
    /\ frame.attempt >= frame.max_retries
    /\ pc' = "execute_sql_return"
    /\ UNCHANGED << config_vars, faults_left, nonempty_left, preflight_vars, executor_vars,
                    pipeline_vars, report_vars, notifications,
                    now, etl_window, queries, housekeeping_vars >>

\* --------------------------------------------------------- Pipeline Driver
\* execute_pipeline up to the step loop: the "starting" notification.
execute_pipeline ==
    /\ pc = "execute_pipeline"
    /\ notifications' =
           send_notification("Starting query optimization pipeline execution", "INFO")
    /\ step' = 1
    /\ pipeline_results' = << >>
    /\ pc' = "pipeline_step"
    /\ UNCHANGED << config_vars, faults_left, nonempty_left, preflight_vars, executor_vars,
                    pipeline_summary, report_vars,
                    now, etl_window, queries, housekeeping_vars >>

\* "for step in pipeline_steps": the step's script is handed to execute_sql_script.
pipeline_step_call ==
    /\ pc = "pipeline_step"
    /\ step <= Len(pipeline_steps)
    /\ ExecutorEntry("script", "step", pipeline_steps[step].script)
    /\ UNCHANGED << config_vars, faults_left, nonempty_left, preflight_vars, pipeline_vars,
                    report_vars, notifications,
                    now, etl_window, queries, housekeeping_vars >>

\* Mutant of RequiredStepFailed: the status is compared with a string the
\* Executor never sets.
RequiredStepFailed_wrong_status(s, r) == s.required /\ r.status = "ERROR"

\* if step["required"] and result["status"] == "FAILED"
RequiredStepFailed(s, r) == s.required /\ r.status = "FAILED"

\* The summary returned early when a required step failed.
AbortSummary(results) ==
    [status |-> "FAILED",
     steps_completed |-> Len(results),
     steps_total |-> Len(pipeline_steps),
     results |-> results,
     error |-> "Required pipeline step failed"]

\* Mutant of OverallStatus: the two branches of the inner conditional swapped.
OverallStatus_swapped(successful_steps, failed_steps) ==
    IF failed_steps = 0 THEN "SUCCESS"
    ELSE IF successful_steps > 0 THEN "FAILED" ELSE "PARTIAL_SUCCESS"

\* overall_status = "SUCCESS" if failed_steps == 0
\*                  else "PARTIAL_SUCCESS" if successful_steps > 0 else "FAILED"
OverallStatus(successful_steps, failed_steps) ==
    IF failed_steps = 0 THEN "SUCCESS"
    ELSE IF successful_steps > 0 THEN "PARTIAL_SUCCESS" ELSE "FAILED"

\* Mutant of CompletedSummary: steps_total taken from the step list, as the
\* abort summary does.
CompletedSummary_list_total(results) ==
    LET successful_steps == Len(SelectStatus(results, "SUCCESS"))
        failed_steps == Len(SelectStatus(results, "FAILED"))
    IN  [status |-> OverallStatus(successful_steps, failed_steps),
         steps_completed |-> successful_steps,
         steps_failed |-> failed_steps,
         steps_total |-> Len(pipeline_steps),
         results |-> results]

\* The summary computed after the incremental call.
CompletedSummary(results) ==
    LET successful_steps == Len(SelectStatus(results, "SUCCESS"))
        failed_steps == Len(SelectStatus(results, "FAILED"))
    IN  [status |-> OverallStatus(successful_steps, failed_steps),
         steps_completed |-> successful_steps,
         steps_failed |-> failed_steps,
         steps_total |-> Len(results),
         results |-> results]

\* The step's result comes back: it is appended, and a required step that FAILED
\* sends the ERROR notification and returns the abort summary to the module level.
pipeline_step_return ==
    /\ pc = "execute_sql_return"
    /\ frame.caller = "step"
    /\ pipeline_results' = Append(pipeline_results, result)
    /\ IF RequiredStepFailed(pipeline_steps[step], result)
       THEN /\ notifications' =
                   send_notification("Required pipeline step failed", "ERROR")
            /\ pipeline_summary' = AbortSummary(pipeline_results')
            /\ step' = step
            /\ pc' = "validate_pipeline_results"
       ELSE /\ notifications' = notifications
            /\ pipeline_summary' = pipeline_summary
            /\ step' = step + 1
            /\ pc' = IF step + 1 <= Len(pipeline_steps)
                     THEN "pipeline_step" ELSE "pipeline_etl"
    /\ UNCHANGED << config_vars, faults_left, nonempty_left, preflight_vars, executor_vars,
                    report_vars,
                    now, etl_window, queries, housekeeping_vars >>

\* end_time = datetime.now()
\* start_time = end_time - timedelta(hours=INCREMENTAL_WINDOW_HOURS)
EtlWindow(end_time) ==
    [start_time |-> end_time - INCREMENTAL_WINDOW_HOURS, end_time |-> end_time]

\* After the loop: the incremental call is built over its window and handed to
\* execute_sql_command.
pipeline_etl_call ==
    /\ pc = "pipeline_etl"
    /\ etl_window' = EtlWindow(now)
    /\ ExecutorEntry("command", "etl", etl_command)
    /\ UNCHANGED << config_vars, faults_left, nonempty_left, preflight_vars, pipeline_vars,
                    report_vars, notifications,
                    now, queries, housekeeping_vars >>

\* The incremental call's result comes back: it is appended and the summary built.
pipeline_etl_return ==
    /\ pc = "execute_sql_return"
    /\ frame.caller = "etl"
    /\ pipeline_results' = Append(pipeline_results, result)
    /\ pipeline_summary' = CompletedSummary(pipeline_results')
    /\ pc' = "validate_pipeline_results"
    /\ UNCHANGED << config_vars, faults_left, nonempty_left, preflight_vars, executor_vars,
                    step, report_vars, notifications,
                    now, etl_window, queries, housekeeping_vars >>

\* ------------------------------------------------ post-execution validation
\* validate_pipeline_results up to the table loop.
validate_pipeline_results ==
    /\ pc = "validate_pipeline_results"
    /\ validation_results' = [table_health_checks |-> << >>,
                              data_quality_checks |-> << >>,
                              overall_status |-> "PENDING"]
    /\ pc' = "check_table_health"
    /\ UNCHANGED << config_vars, faults_left, nonempty_left, preflight_vars, executor_vars,
                    pipeline_vars, summary_report, notifications,
                    now, etl_window, queries, housekeeping_vars >>

\* Mutant of DataFreshness: the age is computed whatever the statistics hold.
DataFreshness_never_null(latest_created_at) == "hours"

\* "data_freshness_hours": None if not stats["latest_created_at"]
\*                         else (datetime.now() - stats["latest_created_at"]) in hours
DataFreshness(latest_created_at) ==
    IF latest_created_at = None THEN None ELSE "hours"

\* The record check_table_health returns from its try block.
HealthSuccess(table_name, latest_created_at) ==
    [table_name |-> table_name, status |-> "SUCCESS", exists |-> TRUE,
     latest_created_at |-> latest_created_at,
     data_freshness_hours |-> DataFreshness(latest_created_at),
     error |-> None]

\* The record check_table_health returns from its handler.
HealthFailure(table_name, error) ==
    [table_name |-> table_name, status |-> "FAILED", exists |-> FALSE, error |-> error]

\* check_table_health for the next key table: DESCRIBE TABLE and the statistics
\* query in one try block.  A trailing window without rows has no latest_created_at.
check_table_health ==
    /\ pc = "check_table_health"
    /\ Len(validation_results.table_health_checks) < Len(key_tables)
    /\ LET table_name == key_tables[Len(validation_results.table_health_checks) + 1]
           record(h) == [validation_results EXCEPT
                            !.table_health_checks = Append(@, h)]
       IN
        \/ /\ \E latest \in {None} \cup {"ts" : n \in RowSets \ {0}} :
                /\ validation_results' = record(HealthSuccess(table_name, latest))
                /\ nonempty_left' = IF latest = None THEN nonempty_left ELSE nonempty_left - 1
           /\ faults_left' = faults_left
        \/ /\ CanFail
           /\ \E msg \in ErrMsgs :
                validation_results' = record(HealthFailure(table_name, msg))
           /\ faults_left' = faults_left - 1
           /\ nonempty_left' = nonempty_left
    /\ UNCHANGED << config_vars, pc, preflight_vars, executor_vars, pipeline_vars,
                    summary_report, notifications,
                    now, etl_window, queries, housekeeping_vars >>

\* After the table loop: the data quality script is handed to execute_sql_script.
data_quality_call ==
    /\ pc = "check_table_health"
    /\ Len(validation_results.table_health_checks) = Len(key_tables)
    /\ ExecutorEntry("script", "quality", data_quality_script)
    /\ UNCHANGED << config_vars, faults_left, nonempty_left, preflight_vars, pipeline_vars,
                    report_vars, notifications,
                    now, etl_window, queries, housekeeping_vars >>

\* if health_failures or quality_failures: FAILED, else SUCCESS
ValidationStatus(health_checks, quality_checks) ==
    IF Len(SelectStatus(health_checks, "FAILED")) > 0
       \/ Len(SelectStatus(quality_checks, "FAILED")) > 0
    THEN "FAILED" ELSE "SUCCESS"

\* The quality result comes back: it is recorded and the overall status decided.
data_quality_return ==
    /\ pc = "execute_sql_return"
    /\ frame.caller = "quality"
    /\ LET quality_checks == Append(validation_results.data_quality_checks, result)
       IN validation_results' =
              [validation_results EXCEPT
                  !.data_quality_checks = quality_checks,
                  !.overall_status =
                      ValidationStatus(validation_results.table_health_checks,
                                       quality_checks)]
    /\ pc' = "generate_summary_report"
    /\ UNCHANGED << config_vars, faults_left, nonempty_left, preflight_vars, executor_vars,
                    pipeline_vars, summary_report, notifications,
                    now, etl_window, queries, housekeeping_vars >>

\* ---------------------------------------------------------------- Reporter
\* Mutant of ReportOverallStatus: "or" for "and" in the first condition.
ReportOverallStatus_or(pipeline_status, validation_status) ==
    IF pipeline_status = "SUCCESS" \/ validation_status = "SUCCESS" THEN "SUCCESS"
    ELSE IF pipeline_status = "PARTIAL_SUCCESS" \/ validation_status = "FAILED"
         THEN "WARNING"
         ELSE "FAILED"

\* The if / elif / else of generate_summary_report over the two statuses.
ReportOverallStatus(pipeline_status, validation_status) ==
    IF pipeline_status = "SUCCESS" /\ validation_status = "SUCCESS" THEN "SUCCESS"
    ELSE IF pipeline_status = "PARTIAL_SUCCESS" \/ validation_status = "FAILED"
         THEN "WARNING"
         ELSE "FAILED"

\* Mutant of Severity: a report with warnings is sent as INFO.
Severity_warning_as_info(overall_status) ==
    IF overall_status \in {"SUCCESS", "WARNING"} THEN "INFO" ELSE "ERROR"

\* severity chosen in the same branches
Severity(overall_status) ==
    IF overall_status = "SUCCESS" THEN "INFO"
    ELSE IF overall_status = "WARNING" THEN "WARNING" ELSE "ERROR"

\* generate_summary_report(pipeline_summary, validation_results)
generate_summary_report ==
    /\ pc = "generate_summary_report"
    /\ LET overall_status == ReportOverallStatus(pipeline_summary.status,
                                                 validation_results.overall_status)
       IN /\ summary_report' = [pipeline_summary |-> pipeline_summary,
                                validation_results |-> validation_results,
                                overall_status |-> overall_status]
          /\ notifications' = send_notification("Pipeline report",
                                                Severity(overall_status))
    /\ pc' = "display_summary"
    /\ UNCHANGED << config_vars, faults_left, nonempty_left, preflight_vars, executor_vars,
                    pipeline_vars, validation_results,
                    now, etl_window, queries, housekeeping_vars >>

\* Module level after the report: display(spark.createDataFrame(...)), outside any
\* try block, so an error of the engine here ends the run.
display_summary ==
    /\ pc = "display_summary"
    /\ \/ /\ pc' = "perform_table_optimization"
          /\ faults_left' = faults_left
       \/ /\ CanFail
          /\ pc' = "display_raised"
          /\ faults_left' = faults_left - 1
    /\ UNCHANGED << config_vars, nonempty_left, preflight_vars, executor_vars,
                    pipeline_vars, report_vars, notifications,
                    now, etl_window, queries, housekeeping_vars >>

\* ------------------------------------------------------------- housekeeping
\* What one iteration of "for table_name in tables_to_optimize" appends: OPTIMIZE
\* and ANALYZE TABLE run in one try block, and its handler records the error.
OptimizationResult(table_name, error) ==
    IF error = None
    THEN [table |-> table_name, status |-> "SUCCESS"]
    ELSE [table |-> table_name, status |-> "FAILED", error |-> error]

\* A statement housekeeping sent to the engine, and whether it raised.
Statement(sql, subject, raised) == [sql |-> sql, subject |-> subject, raised |-> raised]

\* The statements of one table's try block, in the order they are sent.
TableStatements == << "OPTIMIZE", "ANALYZE TABLE" >>

\* What the try block of a table sends when its raised_at-th statement raises
\* (error # None) or when none does (error = None, raised_at the last one).
TableLog(table_name, error, raised_at) ==
    [k \in 1 .. raised_at |->
        Statement(TableStatements[k], table_name, error # None /\ k = raised_at)]

RECURSIVE TablesLog(_, _, _)
\* The statements the table loop sends for its first n tables.
TablesLog(n, errors, raised_at) ==
    IF n = 0 THEN << >>
    ELSE TablesLog(n - 1, errors, raised_at)
         \o TableLog(tables_to_optimize[n], errors[n], raised_at[n])

\* str(e) of an error raised in the table loop: the text is only copied into the
\* table's result, so one text stands for all of them.
TableErrMsgs == {"E1"}

\* perform_table_optimization, the table loop: every table is tried, whichever of
\* them raise (for a table i that raises, errors[i] is the error and raised_at[i]
\* the statement that raised it).
perform_table_optimization ==
    /\ pc = "perform_table_optimization"
    /\ \E raised \in {r \in SUBSET (1 .. Len(tables_to_optimize)) :
                          Cardinality(r) <= faults_left} :
       \E errors \in [raised -> TableErrMsgs],
          raised_at \in [raised -> 1 .. Len(TableStatements)] :
        LET error(i) == IF i \in raised THEN errors[i] ELSE None
            last(i) == IF i \in raised THEN raised_at[i] ELSE Len(TableStatements)
        IN
        /\ optimization_results' =
               [i \in 1 .. Len(tables_to_optimize) |->
                   OptimizationResult(tables_to_optimize[i], error(i))]
        /\ housekeeping_log' =
               housekeeping_log
               \o TablesLog(Len(tables_to_optimize),
                            [i \in 1 .. Len(tables_to_optimize) |-> error(i)],
                            [i \in 1 .. Len(tables_to_optimize) |-> last(i)])
        /\ faults_left' = faults_left - Cardinality(raised)
    /\ pc' = "refresh_materialized_views"
    /\ UNCHANGED << config_vars, nonempty_left, preflight_vars, executor_vars,
                    pipeline_vars, report_vars, notifications, now, etl_window, queries >>

\* What "for view_name in materialized_views" sends when the raised_at-th refresh
\* raises (raised) or when none does (raised_at the last one).
ViewsLog(raised, raised_at) ==
    [k \in 1 .. raised_at |->
        Statement("REFRESH MATERIALIZED VIEW", materialized_views[k],
                  raised /\ k = raised_at)]

\* Mutant of refresh_materialized_views: every view is refreshed in a try block
\* of its own, so the views after one that fails are still refreshed.
refresh_materialized_views_isolated ==
    /\ pc = "refresh_materialized_views"
    /\ \/ /\ housekeeping_log' =
                 housekeeping_log \o ViewsLog(FALSE, Len(materialized_views))
          /\ faults_left' = faults_left
       \/ /\ CanFail
          /\ \E raised_at \in 1 .. Len(materialized_views) :
                 housekeeping_log' =
                     housekeeping_log
                     \o [k \in 1 .. Len(materialized_views) |->
                            Statement("REFRESH MATERIALIZED VIEW", materialized_views[k],
                                      k = raised_at)]
          /\ faults_left' = faults_left - 1
    /\ pc' = "done"
    /\ UNCHANGED << config_vars, nonempty_left, preflight_vars, executor_vars,
                    pipeline_vars, report_vars, notifications, now, etl_window, queries,
                    optimization_results >>

\* perform_table_optimization, "for view_name in materialized_views" inside one
\* try block: the first view that fails to refresh ends the loop.  Then the module
\* level builds the execution log and logs the final status.
refresh_materialized_views ==
    /\ pc = "refresh_materialized_views"
    /\ \/ /\ housekeeping_log' =
                 housekeeping_log \o ViewsLog(FALSE, Len(materialized_views))
          /\ faults_left' = faults_left
       \/ /\ CanFail
          /\ \E raised_at \in 1 .. Len(materialized_views) :
                 housekeeping_log' = housekeeping_log \o ViewsLog(TRUE, raised_at)
          /\ faults_left' = faults_left - 1
    /\ pc' = "done"
    /\ UNCHANGED << config_vars, nonempty_left, preflight_vars, executor_vars,
                    pipeline_vars, report_vars, notifications, now, etl_window, queries,
                    optimization_results >>

\* ------------------------------------------------------------ specification
Next ==
    \/ check_system_table_access
    \/ validate_system_table_access
    \/ validate_schema
    \/ validate_config
    \/ validate_cluster
    \/ prerequisites_gate
    \/ execute_pipeline
    \/ pipeline_step_call
    \/ execute_sql_attempt_success
    \/ execute_sql_attempt_failure
    \/ execute_sql_loop_exhausted
    \/ pipeline_step_return
    \/ pipeline_etl_call
    \/ pipeline_etl_return
    \/ validate_pipeline_results
    \/ check_table_health
    \/ data_quality_call
    \/ data_quality_return
    \/ generate_summary_report
    \/ display_summary
    \/ perform_table_optimization
    \/ refresh_materialized_views

Spec == Init /\ [][Next]_vars

\* The notebook runs on one thread that is never suspended for good: whenever a
\* step of the run can be taken, one eventually is.
SpecLive == Spec /\ WF_vars(Next)

\* ------------------------------------------- one Executor call on its own
\* What an earlier step of the same run has left in pipeline_results when it went
\* through at the first attempt (or, with no attempt allowed, through none).
PassedStep(i) ==
    IF MAX_RETRY_ATTEMPTS = 0
    THEN EntryResult(pipeline_steps[i].script)
    ELSE [EntryResult(pipeline_steps[i].script) EXCEPT
             !.status = "SUCCESS", !.attempt_count = 1]

\* The run stands at the entry of an Executor call, of either kind: the first
\* step's execute_sql_script, or the incremental call's execute_sql_command after
\* all steps went through.  The configuration is swept and any attempt may fail.
InitExecutor ==
    /\ MAX_RETRY_ATTEMPTS \in 0 .. MaxExecRetries
    /\ RETRY_DELAY_SECONDS \in 0 .. MaxBaseDelay
    /\ INCREMENTAL_WINDOW_HOURS = FallbackWindowHours
    /\ CONFIG = {"schemas", "etl", "performance_thresholds"}
    /\ pc = "execute_sql"
    /\ faults_left = MaxExecRetries
    /\ nonempty_left = 1
    /\ access_results =
           [i \in 1 .. Len(required_tables) |->
               [table |-> required_tables[i], status |-> "SUCCESS",
                accessible |-> TRUE, error |-> None]]
    /\ validation_errors = << >>
    /\ \/ /\ frame = EntryFrame("script", "step")
          /\ result = EntryResult(pipeline_steps[1].script)
          /\ step = 1
          /\ pipeline_results = << >>
          /\ now = 0
          /\ etl_window = Unset
       \/ /\ frame = EntryFrame("command", "etl")
          /\ result = EntryResult(etl_command)
          /\ step = Len(pipeline_steps) + 1
          /\ pipeline_results = [i \in 1 .. Len(pipeline_steps) |-> PassedStep(i)]
          /\ now = IF MAX_RETRY_ATTEMPTS = 0 THEN 0 ELSE Len(pipeline_steps)
          /\ etl_window = EtlWindow(now)
    /\ executor_calls = Len(pipeline_results) + 1
    /\ pipeline_summary = Unset
    /\ validation_results = Unset
    /\ summary_report = Unset
    /\ notifications =
           << [severity |-> "INFO",
               message |-> "Starting query optimization pipeline execution"] >>
    /\ queries =
           [i \in 1 .. Len(required_tables) |->
               Query("SELECT COUNT(*)", required_tables[i])]
           \o SchemaQueries \o << Query("SELECT 1", "cluster") >>
    /\ optimization_results = << >>
    /\ housekeeping_log = << >>

NextExecutor ==
    \/ execute_sql_attempt_success
    \/ execute_sql_attempt_failure
    \/ execute_sql_loop_exhausted

SpecExecutor == InitExecutor /\ [][NextExecutor]_vars

\* ------------------------------------------------------ Executor properties
\* What the running Executor call has done so far.
Outcomes == frame.outcomes
Attempts == Len(frame.outcomes)
Returned == pc = "execute_sql_return"
AllAttemptsFailed == \A i \in 1 .. Attempts : Outcomes[i] # "ok"
LastFailure == IF Attempts = 0 THEN None ELSE Outcomes[Attempts]

\* C1: a unit of work whose every attempt fails is attempted exactly
\* max_retries times, and the returned outcome has attempt_count = max_retries,
\* status FAILED and the last failure's message -- for every max_retries.
C1_PermanentFailure ==
    (Returned /\ AllAttemptsFailed) =>
        /\ Attempts = frame.max_retries
        /\ result.attempt_count = frame.max_retries
        /\ result.status = "FAILED"
        /\ result.error_message = LastFailure

\* C1, for max_retries >= 1 only: the same statement, which the code meets.
C1_PermanentFailureWithAnAttempt ==
    (Returned /\ AllAttemptsFailed /\ frame.max_retries >= 1) =>
        /\ Attempts = frame.max_retries
        /\ result.attempt_count = frame.max_retries
        /\ result.status = "FAILED"
        /\ result.error_message = LastFailure

\* The attempt with 0-based index k was the first to succeed.
FirstSucceededAt(k) ==
    /\ Attempts > k
    /\ Outcomes[k + 1] = "ok"
    /\ \A j \in 1 .. k : Outcomes[j] # "ok"

C2_ReturnsAtFirstSuccess ==
    \A k \in 0 .. (frame.max_retries - 1) :
        FirstSucceededAt(k) =>
            /\ Returned
            /\ Attempts = k + 1
            /\ result.status = "SUCCESS"
            /\ result.attempt_count = k + 1

C2_NoAttemptAfterSuccess ==
    (result.status = "SUCCESS" /\ executor_calls' = executor_calls) =>
        /\ frame'.outcomes = frame.outcomes
        /\ frame'.engine_calls = frame.engine_calls
        /\ result' = result

\* C2: when the attempt with index k < max_retries is the first to succeed, the
\* Executor returns at once with status SUCCESS and attempt_count = k + 1, and no
\* further attempt or engine call is made for that unit of work.
C2_SuccessEndsTheCall ==
    [] C2_ReturnsAtFirstSuccess /\ [][C2_NoAttemptAfterSuccess]_vars

\* C2 witness: two failed attempts, then the third succeeds and the call returns.
C2_Witness ==
    /\ Returned
    /\ FirstSucceededAt(2)
    /\ result.status = "SUCCESS"
    /\ result.attempt_count = 3

\* C3: no error raised in an attempt (reading the script included) leaves the
\* Executor: every failed attempt is handled inside the call, what comes back is an
\* outcome record, and after the final attempt has failed it is FAILED and carries
\* that failure's message.
C3_FailureIsReturnedAsData ==
    /\ pc # "uncaught"
    /\ (Attempts > 0 /\ LastFailure # "ok") =>
           /\ pc \in {"execute_sql", "execute_sql_return"}
           /\ result.error_message = LastFailure
    /\ Returned =>
           /\ DOMAIN result = {"subject", "status", "attempt_count", "error_message",
                               "row_count"}
           /\ result.status \in {"PENDING", "SUCCESS", "FAILED"}
    /\ (Returned /\ Attempts = frame.max_retries /\ Attempts > 0
            /\ LastFailure # "ok") =>
           /\ result.status = "FAILED"
           /\ result.error_message \in ErrMsgs

\* C3 witness: a script none of whose attempts got as far as the engine (the file
\* could not be read) comes back FAILED.
C3_Witness ==
    /\ Returned
    /\ frame.kind = "script"
    /\ Attempts >= 2
    /\ frame.engine_calls = 0
    /\ result.status = "FAILED"

\* Failed attempts (1-based) that were not the last allowed one.
RetriedFailures ==
    {i \in 1 .. Attempts : Outcomes[i] # "ok" /\ i < frame.max_retries}

\* C9: after the failed attempt with index k that is not the last allowed one the
\* Executor sleeps RETRY_DELAY_SECONDS * 2^k (the base, then twice the sleep
\* before, never decreasing), and it sleeps after no other attempt: not after a
\* success, not after the final failure.
C9_ExponentialBackoff ==
    LET sleeps == frame.sleeps IN
    /\ Len(sleeps) = Cardinality(RetriedFailures)
    /\ \A i \in 1 .. Len(sleeps) : i \in RetriedFailures
    /\ Len(sleeps) >= 1 => sleeps[1] = RETRY_DELAY_SECONDS
    /\ \A i \in 1 .. (Len(sleeps) - 1) :
           /\ sleeps[i + 1] = 2 * sleeps[i]
           /\ sleeps[i] <= sleeps[i + 1]
           /\ RETRY_DELAY_SECONDS > 0 => sleeps[i] < sleeps[i + 1]

\* C9 witness: three failed attempts out of more, with sleeps of 1, 2 and 4 base
\* delays, and a call that returned SUCCESS with no sleep after it.
C9_Witness ==
    /\ Returned
    /\ RETRY_DELAY_SECONDS = 2
    /\ frame.sleeps = << 2, 4, 8 >>
    /\ result.status = "SUCCESS"

\* ----------------------------------------------- Pipeline Driver properties
\* The i-th entry of pipeline_results is a required step of the list that FAILED.
RequiredFailedAt(i) ==
    /\ i \in 1 .. Len(pipeline_results)
    /\ i <= Len(pipeline_steps)
    /\ pipeline_steps[i].required
    /\ pipeline_results[i].status = "FAILED"

\* An Executor call for a step of the list or for the incremental call is under way.
DriverCallRunning ==
    /\ pc \in {"execute_sql", "execute_sql_return"}
    /\ frame.caller \in {"step", "etl"}

\* C4: once a required step has come back FAILED the driver has aborted: the
\* failed outcome is the last of the results, which hold the outcomes of the steps
\* that ran, in list order; no later step and no incremental call is started (the
\* only Executor call that may follow is post-validation's); and the summary
\* returned has status FAILED and those results.
C4_RequiredFailureAborts ==
    \A i \in 1 .. Len(pipeline_steps) :
        RequiredFailedAt(i) =>
            /\ Len(pipeline_results) = i
            /\ \A j \in 1 .. i :
                   /\ pipeline_results[j].subject = pipeline_steps[j].script
                   /\ j < i => pipeline_results[j].status # "FAILED"
            /\ pc \notin {"pipeline_step", "pipeline_etl"}
            /\ ~ DriverCallRunning
            /\ executor_calls \in {i, i + 1}
            /\ executor_calls = i + 1 => frame.caller = "quality"
            /\ pipeline_summary.status = "FAILED"
            /\ pipeline_summary.results = pipeline_results

\* C4 witness: the run is over, the second step failed and nothing ran after it
\* but post-validation's script.
C4_Witness ==
    /\ pc = "done"
    /\ RequiredFailedAt(2)
    /\ Len(pipeline_results) = 2
    /\ pipeline_summary.status = "FAILED"

\* C5: when the i-th step of the list is FAILED, the abort summary reports
\* steps_completed = i - 1 and steps_total = i.
C5_AbortSummaryCounts ==
    \A i \in 1 .. Len(pipeline_steps) :
        (RequiredFailedAt(i) /\ pipeline_summary.status = "FAILED") =>
            /\ pipeline_summary.steps_completed = i - 1
            /\ pipeline_summary.steps_total = i

\* What the code reports instead: the failed step is counted as completed and
\* steps_total is the length of the step list.
C5_AbortSummaryCountsOfTheCode ==
    \A i \in 1 .. Len(pipeline_steps) :
        (RequiredFailedAt(i) /\ pipeline_summary.status = "FAILED") =>
            /\ pipeline_summary.steps_completed = i
            /\ pipeline_summary.steps_total = Len(pipeline_steps)

\* At least one pre-flight check has failed.
PreflightCheckFailed ==
    \/ \E i \in 1 .. Len(access_results) : ~ access_results[i].accessible
    \/ Len(validation_errors) > 0

\* C6: if a pre-flight check fails (a required table inaccessible, the schema
\* check, a missing configuration section, the connectivity query) the run never
\* leaves validation except by raising: the Executor is never invoked and there
\* is no outcome record; the raise is preceded by the ERROR notification.
C6_PreflightFailureStopsTheRun ==
    PreflightCheckFailed =>
        /\ pc \in {"check_system_table_access", "validate_schema", "validate_config",
                   "validate_cluster", "prerequisites_gate", "raised"}
        /\ executor_calls = 0
        /\ frame = NoFrame
        /\ result = Unset
        /\ pipeline_results = << >>
        /\ pipeline_summary = Unset
        /\ pc = "raised" =>
               /\ Len(notifications) = 1
               /\ notifications[1].severity = "ERROR"

\* C6 witness: one of the five required tables was inaccessible, nothing else
\* failed, and the run has raised.
C6_Witness ==
    /\ pc = "raised"
    /\ Len(access_results) = 5
    /\ Cardinality({i \in 1 .. 5 : ~ access_results[i].accessible}) = 1
    /\ Len(validation_errors) = 1
    /\ executor_calls = 0

\* Whether the i-th entry of the results is a required (aborting) step: the steps
\* of the list carry the flag, the incremental call after them has none.
IsRequired(i) == i <= Len(pipeline_steps) /\ pipeline_steps[i].required

\* C10: a summary has status PARTIAL_SUCCESS if and only if at least one step
\* failed, every failed step was non-required, and at least one step succeeded.
C10_PartialSuccess ==
    pipeline_summary # Unset =>
        LET rs == pipeline_summary.results
            failed == {i \in 1 .. Len(rs) : rs[i].status = "FAILED"}
            succeeded == {i \in 1 .. Len(rs) : rs[i].status = "SUCCESS"}
        IN  (pipeline_summary.status = "PARTIAL_SUCCESS")
                <=> /\ failed # {}
                    /\ \A i \in failed : ~ IsRequired(i)
                    /\ succeeded # {}

\* C10 witness: every step of the list succeeded, the incremental call failed, and
\* the summary says PARTIAL_SUCCESS.
C10_Witness ==
    /\ pipeline_summary # Unset
    /\ pipeline_summary.status = "PARTIAL_SUCCESS"
    /\ Len(pipeline_summary.results) = Len(pipeline_steps) + 1
    /\ pipeline_summary.results[Len(pipeline_steps) + 1].status = "FAILED"

\* ------------------------------------------------------ Reporter properties
ReportBuilt == summary_report # Unset

\* C7: the report is WARNING exactly when the pipeline is PARTIAL_SUCCESS, or the
\* pipeline is SUCCESS and post-validation failed; every other report that is not
\* SUCCESS is FAILED; so a FAILED pipeline always gives a FAILED report.
C7_WarningAndFailed ==
    ReportBuilt =>
        LET p == pipeline_summary.status
            v == validation_results.overall_status
            warning == p = "PARTIAL_SUCCESS" \/ (p = "SUCCESS" /\ v = "FAILED")
        IN  /\ (summary_report.overall_status = "WARNING") <=> warning
            /\ (summary_report.overall_status # "SUCCESS" /\ ~ warning) =>
                   summary_report.overall_status = "FAILED"
            /\ p = "FAILED" => summary_report.overall_status = "FAILED"

\* C8: the report is SUCCESS if and only if the pipeline is SUCCESS and
\* post-validation is SUCCESS, and every report carries one of the three statuses.
C8_SuccessOnlyIfBothSucceed ==
    ReportBuilt =>
        /\ (summary_report.overall_status = "SUCCESS")
               <=> /\ pipeline_summary.status = "SUCCESS"
                   /\ validation_results.overall_status = "SUCCESS"
        /\ summary_report.overall_status \in {"SUCCESS", "WARNING", "FAILED"}

\* C8 witness: a pipeline that succeeded with a post-validation that failed, whose
\* report is not SUCCESS.
C8_Witness ==
    /\ ReportBuilt
    /\ pipeline_summary.status = "SUCCESS"
    /\ validation_results.overall_status = "FAILED"
    /\ summary_report.overall_status = "WARNING"

\* ------------------------------------------------- summary count properties
SummaryReturned == pipeline_summary # Unset
Succeeded(rs) == {i \in 1 .. Len(rs) : rs[i].status = "SUCCESS"}
Failed(rs) == {i \in 1 .. Len(rs) : rs[i].status = "FAILED"}

\* C11: every summary the driver returns, abort path and completed path alike,
\* has steps_completed = the number of succeeded steps, steps_failed = the number
\* of failed steps, and steps_completed + steps_failed <= steps_total.
C11_SummaryCounts ==
    SummaryReturned =>
        /\ "steps_failed" \in DOMAIN pipeline_summary
        /\ pipeline_summary.steps_completed =
               Cardinality(Succeeded(pipeline_summary.results))
        /\ pipeline_summary.steps_failed =
               Cardinality(Failed(pipeline_summary.results))
        /\ pipeline_summary.steps_completed + pipeline_summary.steps_failed
               <= pipeline_summary.steps_total

\* C11 on the completed path only (the summary built after the incremental call),
\* where the code meets it.
C11_CompletedSummaryCounts ==
    (SummaryReturned /\ "steps_failed" \in DOMAIN pipeline_summary) =>
        /\ pipeline_summary.steps_completed =
               Cardinality(Succeeded(pipeline_summary.results))
        /\ pipeline_summary.steps_failed =
               Cardinality(Failed(pipeline_summary.results))
        /\ pipeline_summary.steps_completed + pipeline_summary.steps_failed
               <= pipeline_summary.steps_total

\* Every step of the list and the incremental call came back SUCCESS.
AllSucceeded ==
    /\ SummaryReturned
    /\ Len(pipeline_summary.results) = Len(pipeline_steps) + 1
    /\ \A i \in 1 .. Len(pipeline_summary.results) :
           pipeline_summary.results[i].status = "SUCCESS"

\* C13: when every step of the list and the incremental call succeed, whatever
\* their row counts, the summary has status SUCCESS, steps_failed = 0 and
\* steps_total = steps_completed = the number of list steps + 1.
C13_AllSucceeded ==
    AllSucceeded =>
        /\ pipeline_summary.status = "SUCCESS"
        /\ pipeline_summary.steps_total = Len(pipeline_steps) + 1
        /\ pipeline_summary.steps_completed = Len(pipeline_steps) + 1
        /\ pipeline_summary.steps_failed = 0

\* C13 witness: all five succeeded, one with rows and one without.
C13_Witness ==
    /\ AllSucceeded
    /\ \E i, j \in 1 .. Len(pipeline_summary.results) :
           /\ pipeline_summary.results[i].row_count = 0
           /\ pipeline_summary.results[j].row_count > 0
    /\ pipeline_summary.steps_total = 5

\* ------------------------------------------------------ the incremental call
\* The incremental call has been built (and handed to the Executor).
EtlInvoked == etl_window # Unset
\* The Executor calls made so far for the steps of the list, for post-validation
\* and, the rest, for the incremental call.
StepCalls ==
    Cardinality({i \in 1 .. Len(pipeline_steps) : i <= Len(pipeline_results)})
    + (IF pc \in {"execute_sql", "execute_sql_return"} /\ frame.caller = "step"
       THEN 1 ELSE 0)
QualityCalls == IF frame.caller = "quality" THEN 1 ELSE 0
EtlCalls == executor_calls - StepCalls - QualityCalls
Aborted == \E i \in 1 .. Len(pipeline_steps) : RequiredFailedAt(i)
AllRequiredStepsSucceeded ==
    \A i \in 1 .. Len(pipeline_steps) :
        IsRequired(i) => /\ i <= Len(pipeline_results)
                         /\ pipeline_results[i].status = "SUCCESS"
EtlWindowIsRight ==
    /\ etl_window.end_time - etl_window.start_time = INCREMENTAL_WINDOW_HOURS
    /\ (pc = "execute_sql" /\ frame.caller = "etl" /\ Attempts = 0)
           => etl_window.end_time = now
EtlOutcomeIsLast ==
    /\ Len(pipeline_summary.results) = Len(pipeline_steps) + 1
    /\ pipeline_summary.results[Len(pipeline_summary.results)].subject = etl_command

\* C12: the incremental call is invoked exactly once in a run that does not
\* abort and never in one that aborts; when it is invoked every required step of
\* the list has returned SUCCESS; its window is INCREMENTAL_WINDOW_HOURS long and
\* ends at the time the call is built; its outcome is the last of the results.
C12_IncrementalCall ==
    /\ EtlCalls = (IF EtlInvoked THEN 1 ELSE 0)
    /\ EtlInvoked => AllRequiredStepsSucceeded /\ EtlWindowIsRight
    /\ Aborted => ~ EtlInvoked
    /\ (SummaryReturned /\ ~ Aborted) => EtlInvoked /\ EtlOutcomeIsLast

\* C12, with "has not FAILED" for "has returned SUCCESS": what the code does.
C12_IncrementalCallAfterNoFailure ==
    /\ EtlCalls = (IF EtlInvoked THEN 1 ELSE 0)
    /\ EtlInvoked =>
           /\ \A i \in 1 .. Len(pipeline_steps) :
                  i <= Len(pipeline_results) /\ pipeline_results[i].status # "FAILED"
           /\ MAX_RETRY_ATTEMPTS >= 1 => AllRequiredStepsSucceeded
           /\ EtlWindowIsRight
    /\ Aborted => ~ EtlInvoked
    /\ (SummaryReturned /\ ~ Aborted) => EtlInvoked /\ EtlOutcomeIsLast

\* --------------------------------------------------- pre-flight properties
\* Validation has looked at everything it looks at.
PreflightDone ==
    pc \notin {"check_system_table_access", "validate_schema", "validate_config",
               "validate_cluster"}
\* Every statement validation can send, and how often it was sent.
PreflightQueries ==
    {Query("SELECT COUNT(*)", required_tables[i]) : i \in 1 .. Len(required_tables)}
    \cup {SchemaQueries[i] : i \in 1 .. Len(SchemaQueries)}
    \cup {Query("SELECT 1", "cluster")}
\* The pre-flight queries sent so far.
QueriesSent == {queries[i] : i \in 1 .. Len(queries)}
TimesSent(q) == Cardinality({i \in 1 .. Len(queries) : queries[i] = q})
ErrorsOf(check) ==
    {i \in 1 .. Len(validation_errors) : validation_errors[i].check = check}
MissingKeys ==
    {i \in 1 .. Len(required_config_keys) : required_config_keys[i] \notin CONFIG}
\* Every failure is in the one list: one error per inaccessible table, per missing
\* section, and per failed schema or cluster check (every error the engine raised
\* during validation), and validation succeeds exactly when the list is empty.
FailuresCollected ==
    /\ PreflightDone =>
           /\ Len(access_results) = Len(required_tables)
           /\ Cardinality(ErrorsOf("access")) =
                  Cardinality({i \in 1 .. Len(access_results) :
                                  ~ access_results[i].accessible})
           /\ Cardinality(ErrorsOf("config")) = Cardinality(MissingKeys)
           /\ Cardinality(ErrorsOf("schema")) <= 1
           /\ Cardinality(ErrorsOf("cluster")) <= 1
    /\ pc = "prerequisites_gate" =>
           Len(validation_errors) = (MaxFaults - faults_left) + Cardinality(MissingKeys)
    /\ pc = "raised" => validation_errors # << >>
    /\ (PreflightDone /\ pc \notin {"prerequisites_gate", "raised"})
           => validation_errors = << >>

\* C14 as stated: every check group is evaluated whatever failed before it, every
\* pre-flight query is sent exactly once, all failures are in one list and
\* validation succeeds if and only if the list is empty.
C14_EveryQueryExactlyOnce ==
    /\ FailuresCollected
    /\ PreflightDone => \A q \in PreflightQueries : TimesSent(q) = 1

\* C14, amended: no pre-flight query is ever sent twice, and every one is sent
\* once except SHOW SCHEMAS, which is sent unless USE CATALOG raised (and then the
\* schema check's error is in the list); the rest as stated.
C14_NoQueryRetried ==
    /\ FailuresCollected
    /\ Cardinality(QueriesSent) = Len(queries)
    /\ PreflightDone =>
           \/ QueriesSent = PreflightQueries
           \/ /\ QueriesSent = PreflightQueries \ {SchemaQueries[Len(SchemaQueries)]}
              /\ ErrorsOf("schema") # {}

\* USE CATALOG raised, SHOW SCHEMAS was not sent, and the later groups were still
\* evaluated: the missing section and the failed cluster query are in the list.
C14_Witness ==
    /\ pc = "raised"
    /\ TimesSent(SchemaQueries[Len(SchemaQueries)]) = 0
    /\ TimesSent(Query("SELECT 1", "cluster")) = 1
    /\ ErrorsOf("schema") # {} /\ ErrorsOf("config") # {} /\ ErrorsOf("cluster") # {}

\* The required tables check_system_table_access could not read.
Inaccessible == {i \in 1 .. Len(access_results) : ~ access_results[i].accessible}

\* C15: check_system_table_access gives one outcome per required table, in the
\* order of the list, whichever of the checks fail: every error the engine raises
\* gives one outcome with accessible = FALSE, status FAILED and the error's text,
\* every other outcome is accessible, SUCCESS and without error, and the loop goes
\* on to the last table -- the function always returns, with all the outcomes.
C15_OneOutcomePerResource ==
    /\ Len(access_results) <= Len(required_tables)
    /\ \A i \in 1 .. Len(access_results) :
           /\ access_results[i].table = required_tables[i]
           /\ IF access_results[i].accessible
              THEN access_results[i].status = "SUCCESS" /\ access_results[i].error = None
              ELSE access_results[i].status = "FAILED"
                   /\ access_results[i].error \in ErrMsgs
    /\ pc = "check_system_table_access" =>
           Cardinality(Inaccessible) = MaxFaults - faults_left
    /\ pc # "check_system_table_access" => Len(access_results) = Len(required_tables)

\* Two tables could not be read, and the tables after them were still checked.
C15_Witness ==
    /\ pc # "check_system_table_access"
    /\ Inaccessible = {1, 3}
    /\ access_results[1].error # access_results[3].error
    /\ Len(access_results) = Len(required_tables)

\* ------------------------------------------------------ the run as a whole
\* Pre-flight validation has passed: the run is at or past execute_pipeline.
PreflightPassed == PreflightDone /\ pc \notin {"prerequisites_gate", "raised"}
HousekeepingDone == Len(optimization_results) = Len(tables_to_optimize)
EndOfRun == pc = "done"
\* The phases come in this order: pipeline execution, post-validation, report
\* generation, housekeeping, end of the run.
PhasesInOrder ==
    /\ validation_results # Unset => SummaryReturned
    /\ ReportBuilt => validation_results.overall_status \in {"SUCCESS", "FAILED"}
    /\ optimization_results # << >> => ReportBuilt
    /\ EndOfRun => HousekeepingDone

\* C16: once pre-flight validation has passed nothing halts the process: the run
\* goes through pipeline execution, post-validation, report generation and
\* housekeeping, in this order, and eventually reaches its end.
C16_NoFailureHaltsTheRun ==
    /\ [] PhasesInOrder
    /\ PreflightPassed ~> EndOfRun

\* C16, but for an error of display(spark.createDataFrame(...)): what the code does.
C16_OnlyDisplayHaltsTheRun ==
    /\ [] PhasesInOrder
    /\ PreflightPassed ~> (EndOfRun \/ pc = "display_raised")

\* ------------------------------------------------------ sequential execution
\* The outcome has left PENDING.
Finalized(r) == r.status \in {"SUCCESS", "FAILED"}
\* The first n results are the outcomes of the first n steps of the list, in
\* list order.
StepsAppended(n) ==
    /\ Len(pipeline_results) >= n
    /\ \A j \in 1 .. n : pipeline_results[j].subject = pipeline_steps[j].script
\* An attempt of the step-th step of the list has started.
StepAttemptStarted ==
    /\ pc \in {"execute_sql", "execute_sql_return"}
    /\ frame.caller = "step"
    /\ Attempts >= 1

\* C17: when an attempt of a step of the list has started, the outcomes of all
\* the steps before it -- and nothing else -- are in the results, in list order,
\* each of them SUCCESS or FAILED; and when the incremental call is started the
\* outcomes of all the steps are in the results and the last step's is SUCCESS or
\* FAILED.
C17_StrictlySequential ==
    /\ StepAttemptStarted =>
           /\ Len(pipeline_results) = step - 1
           /\ StepsAppended(step - 1)
           /\ \A j \in 1 .. step - 1 : Finalized(pipeline_results[j])
    /\ EtlInvoked =>
           /\ StepsAppended(Len(pipeline_steps))
           /\ Finalized(pipeline_results[Len(pipeline_steps)])

\* C17, for max_retry_attempts >= 1 only: the same statement, which the code meets.
C17_StrictlySequentialWithAnAttempt ==
    MAX_RETRY_ATTEMPTS >= 1 => C17_StrictlySequential

\* --------------------------------------------------------------- the Reporter
\* The notifications the Reporter has sent.
ReportNotifications ==
    {i \in 1 .. Len(notifications) : notifications[i].message = "Pipeline report"}
\* The notifications sent before the Reporter is called: the driver's "starting"
\* one and, on the abort path, its ERROR one.
DriverNotifications == IF Aborted THEN 2 ELSE 1

\* C18: the Reporter's call sends exactly one notification -- none is there before
\* the call, and after it the report's is the last one, the only one added -- and
\* its severity is INFO for a SUCCESS report, WARNING for a WARNING report and
\* ERROR for a FAILED report.
C18_OneNotificationPerReport ==
    IF ReportBuilt
    THEN /\ ReportNotifications = {Len(notifications)}
         /\ Len(notifications) = DriverNotifications + 1
         /\ summary_report.overall_status \in {"SUCCESS", "WARNING", "FAILED"}
         /\ LET severity == notifications[Len(notifications)].severity IN
                /\ summary_report.overall_status = "SUCCESS" => severity = "INFO"
                /\ summary_report.overall_status = "WARNING" => severity = "WARNING"
                /\ summary_report.overall_status = "FAILED" => severity = "ERROR"
    ELSE ReportNotifications = {}

\* A WARNING report of a PARTIAL_SUCCESS pipeline has been sent, after the
\* driver's "starting" notification.
C18_Witness ==
    /\ ReportBuilt
    /\ summary_report.overall_status = "WARNING"
    /\ pipeline_summary.status = "PARTIAL_SUCCESS"
    /\ notifications[Len(notifications)].severity = "WARNING"
    /\ Len(notifications) = 2

\* ---------------------------------------------------------- post-validation
\* validate_pipeline_results has decided its overall status.
ValidationDecided ==
    validation_results # Unset /\ validation_results.overall_status # "PENDING"
FailedHealthChecks ==
    {i \in 1 .. Len(validation_results.table_health_checks) :
        validation_results.table_health_checks[i].status = "FAILED"}

\* C19: when post-validation has decided, it has run one health check per key
\* table, in order, whichever of them failed, and the data quality script once,
\* through the Executor with the configured retries; its overall status is FAILED
\* if and only if a health check failed or the script did not succeed, and
\* SUCCESS otherwise.
C19_PostValidation ==
    ValidationDecided =>
        /\ Len(validation_results.table_health_checks) = Len(key_tables)
        /\ \A i \in 1 .. Len(key_tables) :
               validation_results.table_health_checks[i].table_name = key_tables[i]
        /\ Len(validation_results.data_quality_checks) = 1
        /\ validation_results.data_quality_checks[1].subject = data_quality_script
        /\ QualityCalls = 1
        /\ frame.kind = "script" /\ frame.max_retries = MAX_RETRY_ATTEMPTS
        /\ validation_results.overall_status \in {"SUCCESS", "FAILED"}
        /\ validation_results.overall_status = "FAILED"
               <=> \/ FailedHealthChecks # {}
                   \/ validation_results.data_quality_checks[1].status # "SUCCESS"

\* C19, for max_retry_attempts >= 1 only: the same statement, which the code meets.
C19_PostValidationWithAnAttempt ==
    MAX_RETRY_ATTEMPTS >= 1 => C19_PostValidation

\* ------------------------------------------------------------ table health
RECURSIVE FailedAttempts(_)
\* The errors the engine (or a script file) raised in the Executor calls whose
\* outcomes are rs: every attempt of an outcome but the one that succeeded.
FailedAttempts(rs) ==
    IF rs = << >> THEN 0
    ELSE Head(rs).attempt_count - (IF Head(rs).status = "SUCCESS" THEN 1 ELSE 0)
         + FailedAttempts(Tail(rs))
\* The errors raised so far while check_table_health ran (pre-flight raised none
\* in a run that got this far).
HealthErrorsRaised == (MaxFaults - faults_left) - FailedAttempts(pipeline_results)
HealthChecks == validation_results.table_health_checks

\* C20: check_table_health never raises: every error raised while it runs gives
\* one record with status FAILED, exists = FALSE and the error's text, and every
\* other call returns a record with status SUCCESS and exists = TRUE, whose
\* data_freshness_hours is null exactly when the statistics hold no latest
\* creation timestamp.
C20_TableHealthNeverRaises ==
    validation_results # Unset =>
        /\ pc = "check_table_health" =>
               Cardinality(FailedHealthChecks) = HealthErrorsRaised
        /\ \A i \in 1 .. Len(HealthChecks) :
               IF HealthChecks[i].status = "FAILED"
               THEN /\ ~ HealthChecks[i].exists
                    /\ HealthChecks[i].error \in ErrMsgs
               ELSE /\ HealthChecks[i].status = "SUCCESS"
                    /\ HealthChecks[i].exists
                    /\ HealthChecks[i].error = None
                    /\ HealthChecks[i].data_freshness_hours = None
                           <=> HealthChecks[i].latest_created_at = None

\* One table's check failed, one table has no latest creation timestamp and one
\* has one.
C20_Witness ==
    /\ pc = "check_table_health"
    /\ Len(HealthChecks) = Len(key_tables)
    /\ HealthChecks[1].status = "FAILED"
    /\ HealthChecks[2].status = "SUCCESS" /\ HealthChecks[2].latest_created_at = None
    /\ HealthChecks[3].status = "SUCCESS" /\ HealthChecks[3].latest_created_at # None
    /\ HealthChecks[3].data_freshness_hours # None

\* ------------------------------------------------------- SUCCESS summaries
SuccessSummary == SummaryReturned /\ pipeline_summary.status = "SUCCESS"

\* C21: whatever max_retry_attempts is, a summary with status SUCCESS holds the
\* outcomes of every step of the list and of the incremental call, each of them
\* SUCCESS after at least one attempt (which sent it to the engine): none is
\* PENDING, none has attempt_count 0.
C21_SuccessMeansExecuted ==
    SuccessSummary =>
        /\ Len(pipeline_summary.results) = Len(pipeline_steps) + 1
        /\ StepsAppended(Len(pipeline_steps))
        /\ pipeline_summary.results[Len(pipeline_steps) + 1].subject = etl_command
        /\ \A i \in 1 .. Len(pipeline_summary.results) :
               /\ pipeline_summary.results[i].status = "SUCCESS"
               /\ pipeline_summary.results[i].attempt_count >= 1

\* C21, for max_retry_attempts >= 1 only: the same statement, which the code meets.
C21_SuccessMeansExecutedWithAnAttempt ==
    MAX_RETRY_ATTEMPTS >= 1 => C21_SuccessMeansExecuted

\* -------------------------------------------------------- FAILED summaries
\* The driver came to the end of the step list and returned the summary computed
\* after the incremental call.
CompletedWithoutAbort == SummaryReturned /\ ~ Aborted

\* C22: a summary with status FAILED comes from the abort path only.  With
\* max_retry_attempts >= 1, a driver that reaches the end of the list without
\* abort has every step of the list SUCCESS, so only the incremental call can have
\* failed, and the derived status is SUCCESS, or PARTIAL_SUCCESS when it did.
C22_FailedOnlyOnAbort ==
    /\ (SummaryReturned /\ pipeline_summary.status = "FAILED") => Aborted
    /\ (CompletedWithoutAbort /\ MAX_RETRY_ATTEMPTS >= 1) =>
           /\ pipeline_summary.status \in {"SUCCESS", "PARTIAL_SUCCESS"}
           /\ Len(pipeline_summary.results) = Len(pipeline_steps) + 1
           /\ \A i \in 1 .. Len(pipeline_steps) :
                  pipeline_summary.results[i].status = "SUCCESS"
           /\ pipeline_summary.status = "PARTIAL_SUCCESS"
                  <=> pipeline_summary.results[Len(pipeline_steps) + 1].status = "FAILED"

\* The incremental call failed at its second and last attempt after a list whose
\* steps all succeeded: the summary is not FAILED.
C22_Witness ==
    /\ CompletedWithoutAbort
    /\ MAX_RETRY_ATTEMPTS = 2
    /\ pipeline_summary.results[Len(pipeline_steps) + 1].status = "FAILED"
    /\ pipeline_summary.results[Len(pipeline_steps) + 1].attempt_count = 2
    /\ pipeline_summary.status = "PARTIAL_SUCCESS"

\* ------------------------------------------------------- the error message
\* The attempts of the running Executor call that failed.
FailedOutcomes == {i \in 1 .. Attempts : Outcomes[i] # "ok"}
LastFailedOutcome == CHOOSE i \in FailedOutcomes : \A j \in FailedOutcomes : j <= i

\* C23: in the outcome an Executor call returns, error_message is non-null if
\* and only if an attempt failed, and then it is the message of the last attempt
\* that failed, also when a later attempt succeeded; a call that succeeds at its
\* first attempt returns error_message null; row_count is non-zero in SUCCESS
\* outcomes only.
C23_ErrorMessageIffAnAttemptFailed ==
    Returned =>
        /\ result.error_message # None <=> FailedOutcomes # {}
        /\ FailedOutcomes # {} => result.error_message = Outcomes[LastFailedOutcome]
        /\ (result.status = "SUCCESS" /\ Attempts = 1) => result.error_message = None
        /\ result.row_count # 0 => result.status = "SUCCESS"

\* The call succeeded at its third attempt, with rows, after two attempts that
\* failed with different messages: the outcome keeps the second one's.
C23_Witness ==
    /\ Returned
    /\ result.status = "SUCCESS"
    /\ Attempts = 3
    /\ Outcomes[1] # Outcomes[2]
    /\ result.error_message = Outcomes[2]
    /\ result.row_count > 0

\* ------------------------------------------------- notifications of a run
\* The run is over: pre-flight raised, the notebook came to its end, or the
\* display of the summary raised.
RunOver == pc \in {"raised", "done", "display_raised"}
Severities == [i \in 1 .. Len(notifications) |-> notifications[i].severity]
Messages == [i \in 1 .. Len(notifications) |-> notifications[i].message]

\* C24: a run that fails pre-flight sends one notification, the ERROR one, and
\* no "starting" one.  A run that passes pre-flight sends the INFO "starting"
\* notification first and the Reporter's last, and between them one ERROR
\* notification if the pipeline aborted on a required step, nothing otherwise.
C24_NotificationsOfARun ==
    /\ pc = "raised" =>
           /\ Severities = << "ERROR" >>
           /\ Messages = << "Prerequisites validation failed" >>
    /\ (RunOver /\ pc # "raised") =>
           /\ notifications[1] =
                  [severity |-> "INFO",
                   message |-> "Starting query optimization pipeline execution"]
           /\ Messages[Len(notifications)] = "Pipeline report"
           /\ IF Aborted
              THEN /\ Len(notifications) = 3
                   /\ notifications[2] =
                          [severity |-> "ERROR",
                           message |-> "Required pipeline step failed"]
              ELSE Len(notifications) = 2
    /\ ~ PreflightPassed => \A i \in 1 .. Len(notifications) :
                                 Messages[i] = "Prerequisites validation failed"

\* A run that aborted on its third step is over: starting, ERROR, report.
C24_Witness ==
    /\ pc = "done"
    /\ RequiredFailedAt(3)
    /\ Severities[1] = "INFO" /\ Severities[2] = "ERROR"
    /\ Messages[3] = "Pipeline report"
    /\ Len(notifications) = 3

\* ------------------------------------------------------------- housekeeping
\* The table loop of perform_table_optimization is over.
TablesOptimized == pc \in {"refresh_materialized_views", "done"}
\* Positions of the log whose statement raised.
Raised == {k \in 1 .. Len(housekeeping_log) : housekeeping_log[k].raised}
\* The k-th statement of the log is sql for subject.
IsSent(k, sql, subject) ==
    /\ k <= Len(housekeeping_log)
    /\ housekeeping_log[k].sql = sql
    /\ housekeeping_log[k].subject = subject

RECURSIVE ViewsFrom(_, _)
\* From its k-th statement on the log is the view loop from view v on: the views
\* refreshed once each, in list order; after a refresh that raised nothing more
\* is sent, and short of one the loop goes to the last view.
ViewsFrom(v, k) ==
    IF v > Len(materialized_views)
    THEN k = Len(housekeeping_log) + 1
    ELSE /\ IsSent(k, "REFRESH MATERIALIZED VIEW", materialized_views[v])
         /\ IF housekeeping_log[k].raised
            THEN k = Len(housekeeping_log)
            ELSE ViewsFrom(v + 1, k + 1)

RECURSIVE TablesFrom(_, _)
\* From its k-th statement on the log is the table loop from table i on, then the
\* view loop (if it has run): for every table, in list order, OPTIMIZE once and,
\* unless that raised, ANALYZE TABLE once; the table's result is FAILED if one of
\* the two raised and SUCCESS if not; whichever it is, the next table follows.
TablesFrom(i, k) ==
    IF i > Len(tables_to_optimize)
    THEN IF pc = "done" THEN ViewsFrom(1, k) ELSE k = Len(housekeeping_log) + 1
    ELSE /\ optimization_results[i].table = tables_to_optimize[i]
         /\ IsSent(k, "OPTIMIZE", tables_to_optimize[i])
         /\ IF housekeeping_log[k].raised
            THEN /\ optimization_results[i].status = "FAILED"
                 /\ TablesFrom(i + 1, k + 1)
            ELSE /\ IsSent(k + 1, "ANALYZE TABLE", tables_to_optimize[i])
                 /\ optimization_results[i].status =
                        (IF housekeeping_log[k + 1].raised THEN "FAILED" ELSE "SUCCESS")
                 /\ TablesFrom(i + 1, k + 2)

\* The errors raised before housekeeping in a run that got as far as housekeeping.
ErrorsBeforeHousekeeping ==
    FailedAttempts(pipeline_results) + Cardinality(FailedHealthChecks)
    + FailedAttempts(validation_results.data_quality_checks)

\* C25: housekeeping never raises: every error raised in it is in the log of a
\* statement and the run goes on.  The table loop gives one result per table, in
\* order: FAILED for a table one of whose two statements raised, SUCCESS for the
\* others, and the tables after a failed one are still processed.  The view loop
\* stops at the first refresh that raises: no later view is refreshed.  No
\* statement is sent twice, and the report stays as it was built.
C25_HousekeepingIsolation ==
    TablesOptimized =>
        /\ Len(optimization_results) = Len(tables_to_optimize)
        /\ TablesFrom(1, 1)
        /\ (MaxFaults - faults_left) - ErrorsBeforeHousekeeping = Cardinality(Raised)
        /\ summary_report.pipeline_summary = pipeline_summary
        /\ summary_report.validation_results = validation_results
        /\ notifications[Len(notifications)].message = "Pipeline report"

\* The second table failed at ANALYZE TABLE and the tables after it were still
\* optimized; the second view failed to refresh and no later view was refreshed.
C25_Witness ==
    /\ pc = "done"
    /\ optimization_results[2].status = "FAILED"
    /\ IsSent(4, "ANALYZE TABLE", tables_to_optimize[2]) /\ housekeeping_log[4].raised
    /\ optimization_results[3].status = "SUCCESS"
    /\ optimization_results[4].status = "SUCCESS"
    /\ IsSent(Len(housekeeping_log), "REFRESH MATERIALIZED VIEW", materialized_views[2])
    /\ housekeeping_log[Len(housekeeping_log)].raised

====
